---- MODULE Spec2Model ----
(***************************************************************************)
(* Model of the text-layout core of epub_converter.py: the script          *)
(* classifier and tokenizer, the CJK-aware line wrapper, the image scaler  *)
(* and the page-flow cursor of convert_epub_to_pdf.                        *)
(*                                                                         *)
(* Characters are Unicode code points (integers); strings are sequences of *)
(* code points.  Lengths on the page are in 1/100 pt, so that the A4 page, *)
(* the leading (20 * 1.35 pt) and the fixed gaps are integers.             *)
(***************************************************************************)
EXTENDS Integers, Sequences, FiniteSets, TLC

VARIABLES
    \* tokenize_for_wrap
    text, ti, tokens, buf, last_cjk, tpc,
    \* wrap_cjk_aware
    max_width, raws, ri, tki, cur, lines, wpc,
    \* draw_image: the image scaler
    img_w, img_h, max_w, page_h, draw_w, draw_h, spc,
    \* convert_epub_to_pdf, draw_paragraph, draw_image: the page-flow cursor
    rpc,            \* position in convert_epub_to_pdf and its callees
    y,              \* the vertical offset
    y_in,           \* the caller's y at an img block, 0 at the other blocks
    blk,            \* the content block being rendered, or the last one rendered
    todo,           \* the wrapped lines still to be emitted
    brk,            \* the check for the line or image at hand emitted showPage
    cmd,            \* the canvas command issued by the last step
    blockCmds,      \* draw commands issued for blk
    blockBreaks,    \* showPage commands issued for blk
    pageDraws       \* a draw command was issued on the current page

tokVars   == <<ti, buf, last_cjk, tpc>>
wrapVars  == <<max_width, raws, ri, tki, cur, lines, wpc>>
scaleVars == <<img_w, img_h, max_w, page_h, spc>>
flowVars  == <<rpc, y, y_in, blk, todo, brk, cmd,
               blockCmds, blockBreaks, pageDraws>>
pageVars  == <<scaleVars, draw_w, draw_h, flowVars>>
vars      == <<text, tokens, tokVars, wrapVars, pageVars>>

----------------------------------------------------------------------------
(* Bounds of the model *)

\* longest input text, in characters
MaxLen == 3
\* widest max_width tried by the wrapper, in quarter-em steps
MaxW == 5
\* largest intrinsic image width and height tried by the scaler, in pixels
MaxDim == 6
\* most lines of a title, heading or paragraph of the render pass
MaxParaLines == 2

----------------------------------------------------------------------------
(* Page and style constants, lengths in 1/100 pt *)

\* A4: 210 mm x 297 mm at 72 pt per inch
PAGE_W == 59528
PAGE_H == 84189
MARGIN == 0
\* 1.35, in 1/100
LINE_SPACING == 135
H1_SIZE == 20
QUOTE_INDENT == 0
\* 0.98, in 1/100
IMAGE_MAX_HEIGHT_RATIO == 98

Pt(n) == n * 100

----------------------------------------------------------------------------
(* Characters *)

\* U+0020 and U+00A0
SP   == 32
NBSP == 160

\* str.isspace() for one character
IsSpace(ch) ==
    \/ ch \in 9..13
    \/ ch \in 28..32
    \/ ch \in {133, 160, 5760, 8232, 8233, 8239, 8287, 12288}
    \/ ch \in 8192..8202

\* the characters str.splitlines() breaks at
IsLineBreak(ch) ==
    \/ ch \in 10..13
    \/ ch \in 28..30
    \/ ch \in {133, 8232, 8233}

is_cjk_char(code) ==
    \/ (19968 <= code /\ code <= 40959)
    \/ (13312 <= code /\ code <= 19903)
    \/ (12352 <= code /\ code <= 12447)
    \/ (12448 <= code /\ code <= 12543)
    \/ (65280 <= code /\ code <= 65519)
    \/ (12288 <= code /\ code <= 12351)

\* the characters the bounded inputs are drawn from:
\* "A", U+65E5 (a kanji), space, NBSP, tab, U+3000 (ideographic space), "\n"
Alphabet == {65, 26085, SP, NBSP, 9, 12288, 10}

SeqsUpTo(S, n) == UNION {[1..k -> S] : k \in 0..n}

\* "ABC" + U+65E5 U+672C U+8A9E + "DEF"
ScenarioText == <<65, 66, 67, 26085, 26412, 35486, 68, 69, 70>>

Texts == SeqsUpTo(Alphabet, MaxLen)

RECURSIVE Flatten(_)
Flatten(ss) == IF ss = <<>> THEN <<>> ELSE Head(ss) \o Flatten(Tail(ss))

----------------------------------------------------------------------------
(* tokenize_for_wrap *)

CjkFlag(b) == IF b THEN "True" ELSE "False"

TokInit == [tokens |-> <<>>, buf |-> <<>>, last_cjk |-> "None"]

\* one iteration of the loop over the characters
TokStepDropsBuffer(st, ch0) ==
    LET ch == IF ch0 = NBSP THEN SP ELSE ch0 IN
    IF IsSpace(ch)
    THEN [tokens |-> Append(st.tokens, <<ch>>), buf |-> <<>>, last_cjk |-> "None"]
    ELSE LET cjk == is_cjk_char(ch) IN
         IF st.last_cjk = "None"
         THEN [tokens |-> st.tokens, buf |-> <<ch>>, last_cjk |-> CjkFlag(cjk)]
         ELSE IF CjkFlag(cjk) # st.last_cjk \/ cjk
              THEN [tokens |-> Append(st.tokens, st.buf), buf |-> <<ch>>,
                    last_cjk |-> CjkFlag(cjk)]
              ELSE [tokens |-> st.tokens, buf |-> Append(st.buf, ch),
                    last_cjk |-> st.last_cjk]

TokStepMergesCjk(st, ch0) ==
    LET ch == IF ch0 = NBSP THEN SP ELSE ch0 IN
    IF IsSpace(ch)
    THEN [tokens |-> IF st.buf # <<>>
                     THEN Append(Append(st.tokens, st.buf), <<ch>>)
                     ELSE Append(st.tokens, <<ch>>),
          buf |-> <<>>, last_cjk |-> "None"]
    ELSE LET cjk == is_cjk_char(ch) IN
         IF st.last_cjk = "None"
         THEN [tokens |-> st.tokens, buf |-> <<ch>>, last_cjk |-> CjkFlag(cjk)]
         ELSE IF CjkFlag(cjk) # st.last_cjk
              THEN [tokens |-> Append(st.tokens, st.buf), buf |-> <<ch>>,
                    last_cjk |-> CjkFlag(cjk)]
              ELSE [tokens |-> st.tokens, buf |-> Append(st.buf, ch),
                    last_cjk |-> st.last_cjk]

TokStep(st, ch0) ==
    LET ch == IF ch0 = NBSP THEN SP ELSE ch0 IN
    IF IsSpace(ch)
    THEN [tokens |-> IF st.buf # <<>>
                     THEN Append(Append(st.tokens, st.buf), <<ch>>)
                     ELSE Append(st.tokens, <<ch>>),
          buf |-> <<>>, last_cjk |-> "None"]
    ELSE LET cjk == is_cjk_char(ch) IN
         IF st.last_cjk = "None"
         THEN [tokens |-> st.tokens, buf |-> <<ch>>, last_cjk |-> CjkFlag(cjk)]
         ELSE IF CjkFlag(cjk) # st.last_cjk
              THEN [tokens |-> Append(st.tokens, st.buf), buf |-> <<ch>>,
                    last_cjk |-> CjkFlag(cjk)]
              ELSE IF cjk
                   THEN [tokens |-> Append(st.tokens, st.buf), buf |-> <<ch>>,
                         last_cjk |-> st.last_cjk]
                   ELSE [tokens |-> st.tokens, buf |-> Append(st.buf, ch),
                         last_cjk |-> st.last_cjk]

\* the flush after the loop
TokFinish(st) == IF st.buf # <<>> THEN Append(st.tokens, st.buf) ELSE st.tokens

RECURSIVE TokScan(_, _)
TokScan(s, n) == IF n = 0 THEN TokInit ELSE TokStep(TokScan(s, n - 1), s[n])

tokenize_for_wrap(s) == TokFinish(TokScan(s, Len(s)))

----------------------------------------------------------------------------
(* The tokenizer as a state machine: one step per character *)

IdleTok == ti = 0 /\ buf = <<>> /\ last_cjk = "None" /\ tpc = "idle"

IdleWrap ==
    /\ max_width = 0 /\ raws = <<>> /\ ri = 0 /\ tki = 0
    /\ cur = <<>> /\ lines = <<>> /\ wpc = "idle"

NoBlock == [name |-> "none", empty |-> TRUE, res |-> "none"]
NoCmd   == [op |-> "none", y |-> 0]

IdleScale ==
    /\ img_w = 0 /\ img_h = 0 /\ max_w = 0 /\ page_h = 0 /\ spc = "idle"

IdleFlow ==
    /\ rpc = "idle" /\ y = 0 /\ y_in = 0
    /\ blk = NoBlock /\ todo = <<>> /\ brk = FALSE /\ cmd = NoCmd
    /\ blockCmds = 0 /\ blockBreaks = 0 /\ pageDraws = FALSE

IdlePage == IdleScale /\ draw_w = 0 /\ draw_h = 0 /\ IdleFlow

InitTok ==
    /\ text \in Texts \cup {ScenarioText}
    /\ ti = 1 /\ tokens = <<>> /\ buf = <<>> /\ last_cjk = "None" /\ tpc = "scan"
    /\ IdleWrap /\ IdlePage

TokChar ==
    /\ tpc = "scan" /\ ti <= Len(text)
    /\ LET st == TokStep([tokens |-> tokens, buf |-> buf, last_cjk |-> last_cjk],
                         text[ti]) IN
         /\ tokens' = st.tokens
         /\ buf' = st.buf
         /\ last_cjk' = st.last_cjk
    /\ ti' = ti + 1
    /\ UNCHANGED <<text, tpc, wrapVars, pageVars>>

TokReturn ==
    /\ tpc = "scan" /\ ti > Len(text)
    /\ tokens' = TokFinish([tokens |-> tokens, buf |-> buf, last_cjk |-> last_cjk])
    /\ tpc' = "done"
    /\ UNCHANGED <<text, ti, buf, last_cjk, wrapVars, pageVars>>

NextTok == TokChar \/ TokReturn

SpecTok == InitTok /\ [][NextTok]_vars

NbspToSpace(s) == [i \in 1..Len(s) |-> IF s[i] = NBSP THEN SP ELSE s[i]]

\* C7: the tokens returned by tokenize_for_wrap, concatenated in order, are the
\* line with every U+00A0 replaced by U+0020.
C7_LosslessTokenization ==
    tpc = "done" => Flatten(tokens) = NbspToSpace(text)

\* the class of a token: one whitespace character, one ideographic character,
\* a run of ordinary characters, or none of these
TokenClass(tk) ==
    IF Len(tk) = 1 /\ IsSpace(tk[1]) THEN "whitespace"
    ELSE IF Len(tk) = 1 /\ is_cjk_char(tk[1]) THEN "ideographic"
    ELSE IF Len(tk) >= 1
            /\ \A i \in 1..Len(tk) : ~IsSpace(tk[i]) /\ ~is_cjk_char(tk[i])
         THEN "ordinary"
    ELSE "none"

\* C11: every token returned by tokenize_for_wrap is non-empty and is a single
\* whitespace character, a single ideographic character or a maximal run of
\* ordinary characters (no two ordinary tokens are adjacent), and
\* "ABC" U+65E5 U+672C U+8A9E "DEF" yields the five tokens ABC, the three
\* ideographs one by one, DEF.
C11_TokenShape ==
    tpc = "done" =>
        /\ \A i \in 1..Len(tokens) : TokenClass(tokens[i]) # "none"
        /\ \A i \in 1..(Len(tokens) - 1) :
              ~(TokenClass(tokens[i]) = "ordinary"
                  /\ TokenClass(tokens[i + 1]) = "ordinary")
        /\ text = ScenarioText =>
              tokens = << <<65, 66, 67>>, <<26085>>, <<26412>>, <<35486>>,
                          <<68, 69, 70>> >>

\* the scenario line has been tokenized: adjacent ideographs, between two
\* ordinary runs
C11_Witness ==
    /\ tpc = "done"
    /\ text = ScenarioText
    /\ Len(tokens) = 5
    /\ TokenClass(tokens[2]) = "ideographic" /\ TokenClass(tokens[3]) = "ideographic"

\* a line with an NBSP between two tokens of different classes has been tokenized
C7_Witness ==
    /\ tpc = "done"
    /\ Len(text) = 3 /\ text[2] = NBSP /\ ~IsSpace(text[1]) /\ ~IsSpace(text[3])
    /\ Len(tokens) = 3

----------------------------------------------------------------------------
(* str_width: the width the font gives a string.  pdfmetrics.stringWidth    *)
(* adds the advance widths of the characters and scales by the font size;   *)
(* the font is the user's, so the advances are those of one sample font, in *)
(* 1/100 em: a narrow Latin glyph, a wider space, a full-width kanji.       *)

DEFAULT_FONT_SIZE == 20
TITLE_FONT_SIZE == 26

GlyphWidth(ch) ==
    IF IsSpace(ch) THEN 50
    ELSE IF is_cjk_char(ch) THEN 100
    ELSE 25

RECURSIVE AdvanceSum(_)
AdvanceSum(s) == IF s = <<>> THEN 0 ELSE GlyphWidth(Head(s)) + AdvanceSum(Tail(s))

str_width(s, font_size) == AdvanceSum(s) * font_size

\* the max widths tried: 0, 1, ..., MaxW quarter-ems of the body font
Widths == {k * 25 * DEFAULT_FONT_SIZE : k \in 0..MaxW}

----------------------------------------------------------------------------
(* wrap_cjk_aware *)

RECURSIVE rstrip(_)
rstrip(s) ==
    IF s = <<>> THEN <<>>
    ELSE IF IsSpace(s[Len(s)]) THEN rstrip(SubSeq(s, 1, Len(s) - 1))
    ELSE s

RECURSIVE lstrip(_)
lstrip(s) ==
    IF s = <<>> THEN <<>>
    ELSE IF IsSpace(Head(s)) THEN lstrip(Tail(s))
    ELSE s

strip(s) == lstrip(rstrip(s))

\* index of the first line break of s, 0 when it has none
FirstBreak(s) ==
    IF \E i \in 1..Len(s) : IsLineBreak(s[i])
    THEN CHOOSE i \in 1..Len(s) :
            IsLineBreak(s[i]) /\ \A j \in 1..(i - 1) : ~IsLineBreak(s[j])
    ELSE 0

\* str.splitlines(): "\r\n" is one break; no empty last line after a final break
RECURSIVE splitlines(_)
splitlines(s) ==
    IF s = <<>> THEN <<>>
    ELSE LET b == FirstBreak(s) IN
         IF b = 0 THEN <<s>>
         ELSE LET skip == IF s[b] = 13 /\ b < Len(s) /\ s[b + 1] = 10
                          THEN b + 1 ELSE b
              IN <<SubSeq(s, 1, b - 1)>> \o splitlines(SubSeq(s, skip + 1, Len(s)))

RawLinesNoDefault(s) == splitlines(s)

\* text.splitlines() or [""]
RawLines(s) == IF splitlines(s) = <<>> THEN << <<>> >> ELSE splitlines(s)

\* one iteration of the character-by-character packing of an over-wide token
PackStepDropsPiece(st, ch, w, font_size) ==
    IF str_width(Append(st.piece, ch), font_size) <= w
    THEN [piece |-> Append(st.piece, ch), out |-> st.out]
    ELSE [piece |-> <<ch>>, out |-> st.out]

PackStep(st, ch, w, font_size) ==
    IF str_width(Append(st.piece, ch), font_size) <= w
    THEN [piece |-> Append(st.piece, ch), out |-> st.out]
    ELSE [piece |-> <<ch>>,
          out |-> IF st.piece # <<>> THEN Append(st.out, st.piece) ELSE st.out]

RECURSIVE PackChars(_, _, _, _)
PackChars(add, n, w, font_size) ==
    IF n = 0 THEN [piece |-> <<>>, out |-> <<>>]
    ELSE PackStep(PackChars(add, n - 1, w, font_size), add[n], w, font_size)

\* a token that arrives at an empty accumulator, or after a flush
SeedTokenUnchecked(lns, add, w, font_size) == [cur |-> add, lines |-> lns]

SeedToken(lns, add, w, font_size) ==
    IF str_width(add, font_size) <= w
    THEN [cur |-> add, lines |-> lns]
    ELSE LET p == PackChars(add, Len(add), w, font_size) IN
         [cur |-> p.piece, lines |-> lns \o p.out]

\* the body of the loop over the tokens of one sub-line
WrapTokenNoTrim(st, tk, w, font_size) ==
    IF tk = <<SP>>
    THEN IF st.cur # <<>> /\ st.cur[Len(st.cur)] # SP
            /\ str_width(Append(st.cur, SP), font_size) <= w
         THEN [cur |-> Append(st.cur, SP), lines |-> st.lines]
         ELSE st
    ELSE IF st.cur = <<>>
         THEN SeedToken(st.lines, tk, w, font_size)
         ELSE IF str_width(st.cur \o tk, font_size) <= w
              THEN [cur |-> st.cur \o tk, lines |-> st.lines]
              ELSE SeedToken(Append(st.lines, st.cur), tk, w, font_size)

WrapToken(st, tk, w, font_size) ==
    IF tk = <<SP>>
    THEN IF st.cur # <<>> /\ st.cur[Len(st.cur)] # SP
            /\ str_width(Append(st.cur, SP), font_size) <= w
         THEN [cur |-> Append(st.cur, SP), lines |-> st.lines]
         ELSE st
    ELSE IF st.cur = <<>>
         THEN SeedToken(st.lines, tk, w, font_size)
         ELSE IF str_width(st.cur \o tk, font_size) <= w
              THEN [cur |-> st.cur \o tk, lines |-> st.lines]
              ELSE SeedToken(Append(st.lines, rstrip(st.cur)), tk, w, font_size)

RECURSIVE WrapTokens(_, _, _, _, _)
WrapTokens(lns, tks, n, w, font_size) ==
    IF n = 0 THEN [cur |-> <<>>, lines |-> lns]
    ELSE WrapToken(WrapTokens(lns, tks, n - 1, w, font_size), tks[n], w, font_size)

IsBlankLine(raw) == strip(raw) = <<>> /\ raw # <<>>

\* the body of the loop over the sub-lines
WrapRaw(lns, raw, w, font_size) ==
    IF IsBlankLine(raw) THEN Append(lns, <<>>)
    ELSE LET tks == tokenize_for_wrap(raw)
             st  == WrapTokens(lns, tks, Len(tks), w, font_size)
         IN Append(st.lines, rstrip(st.cur))

RECURSIVE WrapRaws(_, _, _, _)
WrapRaws(rs, n, w, font_size) ==
    IF n = 0 THEN <<>>
    ELSE WrapRaw(WrapRaws(rs, n - 1, w, font_size), rs[n], w, font_size)

wrap_cjk_aware(s, w, font_size) ==
    WrapRaws(RawLines(s), Len(RawLines(s)), w, font_size)

----------------------------------------------------------------------------
(* The wrapper as a state machine: one step per sub-line and per token *)

\* widths that fit "ABC" and two ideographs but not a third ideograph
ScenarioWidths == {k * 25 * DEFAULT_FONT_SIZE : k \in {11, 14}}

InitWrap ==
    /\ text \in Texts
    /\ max_width \in Widths
    /\ raws = <<>> /\ ri = 0 /\ tokens = <<>> /\ tki = 0
    /\ cur = <<>> /\ lines = <<>> /\ wpc = "start"
    /\ IdleTok /\ IdlePage

WrapSplit ==
    /\ wpc = "start"
    /\ raws' = RawLines(text)
    /\ ri' = 1
    /\ wpc' = "raw"
    /\ UNCHANGED <<pageVars, text, tokens, tokVars, max_width, tki, cur, lines>>

WrapBlankRaw ==
    /\ wpc = "raw" /\ ri <= Len(raws)
    /\ IsBlankLine(raws[ri])
    /\ lines' = Append(lines, <<>>)
    /\ ri' = ri + 1
    /\ UNCHANGED <<pageVars, text, tokens, tokVars, max_width, raws, tki, cur, wpc>>

WrapTokenize ==
    /\ wpc = "raw" /\ ri <= Len(raws)
    /\ ~IsBlankLine(raws[ri])
    /\ tokens' = tokenize_for_wrap(raws[ri])
    /\ cur' = <<>>
    /\ tki' = 1
    /\ wpc' = "tokens"
    /\ UNCHANGED <<pageVars, text, tokVars, max_width, raws, ri, lines>>

\* the loop body applied to the token at tki
TokenStep ==
    /\ LET st == WrapToken([cur |-> cur, lines |-> lines], tokens[tki],
                           max_width, DEFAULT_FONT_SIZE) IN
         /\ cur' = st.cur
         /\ lines' = st.lines
    /\ tki' = tki + 1
    /\ UNCHANGED <<pageVars, text, tokens, tokVars, max_width, raws, ri, wpc>>

AtToken == wpc = "tokens" /\ tki <= Len(tokens)

WrapSpace ==
    /\ AtToken /\ tokens[tki] = <<SP>>
    /\ TokenStep

WrapSeed ==
    /\ AtToken /\ tokens[tki] # <<SP>>
    /\ cur = <<>>
    /\ TokenStep

WrapAppend ==
    /\ AtToken /\ tokens[tki] # <<SP>>
    /\ cur # <<>>
    /\ str_width(cur \o tokens[tki], DEFAULT_FONT_SIZE) <= max_width
    /\ TokenStep

WrapFlush ==
    /\ AtToken /\ tokens[tki] # <<SP>>
    /\ cur # <<>>
    /\ str_width(cur \o tokens[tki], DEFAULT_FONT_SIZE) > max_width
    /\ TokenStep

WrapEndRaw ==
    /\ wpc = "tokens" /\ tki > Len(tokens)
    /\ lines' = Append(lines, rstrip(cur))
    /\ ri' = ri + 1
    /\ wpc' = "raw"
    /\ UNCHANGED <<pageVars, text, tokens, tokVars, max_width, raws, tki, cur>>

WrapReturn ==
    /\ wpc = "raw" /\ ri > Len(raws)
    /\ wpc' = "done"
    /\ UNCHANGED <<pageVars, text, tokens, tokVars, max_width, raws, ri, tki, cur, lines>>

NextWrap ==
    \/ WrapSplit \/ WrapBlankRaw \/ WrapTokenize
    \/ WrapSpace \/ WrapSeed \/ WrapAppend \/ WrapFlush
    \/ WrapEndRaw \/ WrapReturn

SpecWrap == InitWrap /\ [][NextWrap]_vars

\* the wrapper on the texts above and on the scenario line at its widths
InitWrapScenario ==
    /\ \/ text \in Texts /\ max_width \in Widths
       \/ text = ScenarioText /\ max_width \in ScenarioWidths
    /\ raws = <<>> /\ ri = 0 /\ tokens = <<>> /\ tki = 0
    /\ cur = <<>> /\ lines = <<>> /\ wpc = "start"
    /\ IdleTok /\ IdlePage

SpecWrapScenario == InitWrapScenario /\ [][NextWrap]_vars

\* the loops are over finite sequences: every step is eventually taken
FairSpecWrap == SpecWrap /\ WF_vars(NextWrap)

\* the stepwise wrapper returns what the operator computes
WrapAgrees ==
    wpc = "done" => lines = wrap_cjk_aware(text, max_width, DEFAULT_FONT_SIZE)

----------------------------------------------------------------------------
(* Claims about wrap_cjk_aware *)

Fits(line) == str_width(line, DEFAULT_FONT_SIZE) <= max_width

\* C1: every line the wrapper produces measures at most max_width, unless it is
\* a single character that is itself wider than max_width.
C1_WidthBound ==
    \A i \in 1..Len(lines) : Fits(lines[i]) \/ (Len(lines[i]) = 1 /\ ~Fits(lines[i]))

\* the wrapper has returned a one-character over-wide line and a longer line
\* that fits
C1_Witness ==
    /\ wpc = "done"
    /\ \E i \in 1..Len(lines) : Len(lines[i]) = 1 /\ ~Fits(lines[i])
    /\ \E i \in 1..Len(lines) : Len(lines[i]) >= 2 /\ Fits(lines[i])

NonSpace(s) == SelectSeq(s, LAMBDA c : ~IsSpace(c))

\* the sub-lines text.splitlines() or [""] yields, counted on the text itself
SubLineCount(s) ==
    1 + Cardinality({i \in 1..(Len(s) - 1) :
                        IsLineBreak(s[i]) /\ ~(s[i] = 13 /\ s[i + 1] = 10)})

\* C6 as stated: the wrapper terminates, returns at least one line for an input
\* that is non-empty once trimmed, and exactly one empty line for a blank input.
C6_Original ==
    /\ wpc = "done" \/ ENABLED NextWrap
    /\ wpc = "done" =>
         /\ strip(text) # <<>> => Len(lines) >= 1
         /\ strip(text) = <<>> => lines = << <<>> >>

\* C6 (amended): the wrapper terminates on every input and max width; it returns
\* at least one line for an input that is non-empty once trimmed, and for a blank
\* input one empty line per sub-line of the input (one for the empty string).
C6_Termination ==
    /\ <>(wpc = "done")
    /\ [](wpc = "done" =>
            /\ strip(text) # <<>> => Len(lines) >= 1
            /\ strip(text) = <<>> =>
                 /\ Len(lines) = SubLineCount(text)
                 /\ \A i \in 1..Len(lines) : lines[i] = <<>>)

\* the wrapper has returned for a blank input of two sub-lines, at a max width
\* smaller than every character
C6_Witness ==
    /\ wpc = "done"
    /\ max_width = 0
    /\ text # <<>> /\ strip(text) = <<>>
    /\ Len(lines) = 2

\* C8: no content is dropped: the non-whitespace characters of the returned
\* lines, in order, are those of the input, and a non-whitespace character wider
\* than max_width is returned as a line of its own.
C8_NoDroppedContent ==
    wpc = "done" =>
        /\ NonSpace(Flatten(lines)) = NonSpace(text)
        /\ \A i \in 1..Len(text) :
              (~IsSpace(text[i]) /\ ~Fits(<<text[i]>>))
                  => \E j \in 1..Len(lines) : lines[j] = <<text[i]>>

\* the wrapper has returned for a kanji wider than max_width, placed between
\* two other characters
C8_Witness ==
    /\ wpc = "done"
    /\ Len(text) = 3 /\ is_cjk_char(text[2]) /\ ~IsSpace(text[2]) /\ ~Fits(<<text[2]>>)
    /\ ~IsSpace(text[1]) /\ ~IsSpace(text[3])
    /\ \E j \in 1..Len(lines) : lines[j] = <<text[2]>>

\* the step that processes tokens[tki]
ProcessesToken == AtToken /\ tki' = tki + 1

\* C12: processing a whitespace token (space, tab, U+3000, ...) never flushes
\* a line and never makes the accumulator exceed max_width: the accumulator
\* gains the one whitespace character, still fitting, or is left unchanged.
C12_WhitespaceNeverBreaks ==
    [][(ProcessesToken /\ TokenClass(tokens[tki]) = "whitespace")
          => /\ lines' = lines
             /\ \/ cur' = cur
                \/ cur' = cur \o tokens[tki] /\ Fits(cur')]_vars

\* C13: a non-whitespace token arriving at a non-empty accumulator is
\* appended when accumulator + token fits max_width; otherwise the
\* right-trimmed accumulator is flushed as the next line and the token seeds
\* what follows; and "ABC" + three ideographs + "DEF", at a width that fits
\* "ABC" + two ideographs but not the third, returns exactly two lines, the
\* second starting at the third ideograph.
C13_GreedyPacking ==
    /\ [][(ProcessesToken /\ TokenClass(tokens[tki]) # "whitespace" /\ cur # <<>>)
            => IF Fits(cur \o tokens[tki])
               THEN cur' = cur \o tokens[tki] /\ lines' = lines
               ELSE /\ Len(lines') > Len(lines)
                    /\ SubSeq(lines', 1, Len(lines)) = lines
                    /\ lines'[Len(lines) + 1] = rstrip(cur)
                    /\ Flatten(SubSeq(lines', Len(lines) + 2, Len(lines'))) \o cur'
                          = tokens[tki]]_vars
    /\ []((wpc = "done" /\ text = ScenarioText /\ max_width \in ScenarioWidths)
            => lines = << <<65, 66, 67, 26085, 26412>>, <<35486, 68, 69, 70>> >>)

\* the scenario has been wrapped at a scenario width, with a flush before the
\* third ideograph
C13_Witness ==
    /\ wpc = "done"
    /\ text = ScenarioText /\ max_width \in ScenarioWidths
    /\ Len(lines) = 2 /\ lines[2][1] = 35486

\* the lines joined into one text, each closed by a line feed
JoinLines(ls) == Flatten([i \in 1..Len(ls) |-> Append(ls[i], 10)])

\* the positions of the non-whitespace characters of s, in order
NonSpaceIdx(s) ==
    SelectSeq([i \in 1..Len(s) |-> i], LAMBDA i : ~IsSpace(s[i]))

\* C14: two consecutive non-whitespace characters that whitespace separates in
\* the input are never adjacent on one returned line: they are on different
\* lines, or whitespace stands between them.
C14_WordSeparation ==
    wpc = "done" =>
        LET a == NonSpaceIdx(text)
            b == NonSpaceIdx(JoinLines(lines)) IN
        \A k \in 1..(Len(a) - 1) :
            a[k + 1] > a[k] + 1
                => (k + 1 <= Len(b) /\ b[k + 1] > b[k] + 1)

----------------------------------------------------------------------------
(* draw_image: the image scaler.  The scale is a ratio num/den; the drawn   *)
(* size is rounded down to the length unit.                                 *)

ImageScaleWidthOnly(iw, ih, mw, ph) == [num |-> mw, den |-> iw]

\* page_h * IMAGE_MAX_HEIGHT_RATIO, rounded down to the length unit
MaxImageHeight(ph) == (ph * IMAGE_MAX_HEIGHT_RATIO) \div 100

\* scale = min(max_w / img_w, (page_h * IMAGE_MAX_HEIGHT_RATIO) / img_h)
ImageScale(iw, ih, mw, ph) ==
    IF mw * ih <= MaxImageHeight(ph) * iw
    THEN [num |-> mw, den |-> iw]
    ELSE [num |-> MaxImageHeight(ph), den |-> ih]

\* draw_w = img_w * scale, draw_h = img_h * scale
DrawSize(iw, ih, mw, ph) ==
    LET scale == ImageScale(iw, ih, mw, ph) IN
    [w |-> (iw * scale.num) \div scale.den, h |-> (ih * scale.num) \div scale.den]

\* intrinsic sizes, max widths and page heights the scaler is tried on
Dims == (1..MaxDim) \cup {1000, 2000}

InitScale ==
    /\ img_w \in Dims /\ img_h \in Dims
    /\ max_w \in {500, PAGE_W - 2 * MARGIN}
    /\ page_h \in {800, PAGE_H}
    /\ draw_w = 0 /\ draw_h = 0 /\ spc = "start"
    /\ text = <<>> /\ tokens = <<>> /\ IdleTok /\ IdleWrap /\ IdleFlow

ScaleImage ==
    /\ spc = "start"
    /\ LET d == DrawSize(img_w, img_h, max_w, page_h) IN
         /\ draw_w' = d.w
         /\ draw_h' = d.h
    /\ spc' = "done"
    /\ UNCHANGED <<text, tokens, tokVars, wrapVars, img_w, img_h, max_w, page_h, flowVars>>

NextScale == ScaleImage

SpecScale == InitScale /\ [][NextScale]_vars

\* C10: the drawn size is the intrinsic size times min(max_w / w,
\* (page_h * 0.98) / h): the width is at most max_w, the height at most
\* page_h * 0.98, one of the two limits is met, the aspect ratio is kept (up to
\* the rounding of the drawn size), and 2000x1000 at max width 500 and page
\* height 800 is drawn at 500x250.
C10_ImageScaling ==
    spc = "done" =>
        /\ draw_w <= max_w
        /\ draw_h * 100 <= page_h * IMAGE_MAX_HEIGHT_RATIO
        /\ draw_w = max_w \/ (draw_h + 1) * 100 > page_h * IMAGE_MAX_HEIGHT_RATIO
        /\ draw_w * img_h - draw_h * img_w < img_w
        /\ draw_h * img_w - draw_w * img_h < img_h
        /\ (img_w = 2000 /\ img_h = 1000 /\ max_w = 500 /\ page_h = 800)
              => (draw_w = 500 /\ draw_h = 250)

\* the 2000x1000 image has been scaled for max width 500 and page height 800
C10_Witness ==
    /\ spc = "done"
    /\ img_w = 2000 /\ img_h = 1000 /\ max_w = 500 /\ page_h = 800
    /\ draw_w = 500 /\ draw_h = 250

----------------------------------------------------------------------------
(* convert_epub_to_pdf, draw_paragraph and draw_image: the page-flow cursor *)

x_left  == MARGIN
x_right == PAGE_W - MARGIN

\* y = PAGE_SIZE[1] - MARGIN
TopOfPage == PAGE_H - MARGIN

\* leading = font_size * LINE_SPACING
Leading(font_size) == font_size * LINE_SPACING

\* the test made before an emission of height h: y - h < MARGIN
NeedsBreakIgnoresHeight(yy, h) == yy < MARGIN

NeedsBreak(yy, h) == yy - h < MARGIN

\* y -= h
AdvanceUp(yy, h) == yy + h

Advance(yy, h) == yy - h

\* a text of k lines "A", separated by "\n"
RECURSIVE LinesText(_)
LinesText(k) == IF k <= 1 THEN <<65>> ELSE LinesText(k - 1) \o <<10, 65>>

\* the non-empty texts of titles, headings and paragraphs
RenderTexts == {LinesText(k) : k \in 1..MaxParaLines}

\* the intrinsic sizes of the images of the document
RenderImages == {<<2000, 1000>>, <<1000, 2000>>}

HeadingNames == {"h1", "h2", "h3"}
TextNames    == {"p", "pre", "blockquote"}

InitFlow ==
    /\ rpc = "title"
    /\ y = TopOfPage /\ y_in = 0
    /\ blk = NoBlock /\ todo = <<>>
    /\ brk = FALSE /\ cmd = NoCmd
    /\ blockCmds = 0 /\ blockBreaks = 0 /\ pageDraws = FALSE
    /\ draw_w = 0 /\ draw_h = 0

Init ==
    /\ InitFlow
    /\ text = <<>> /\ tokens = <<>> /\ IdleTok /\ IdleWrap /\ IdleScale

restVars == <<text, tokens, tokVars, wrapVars, scaleVars>>

\* the test before one line or image of height need, with c.showPage() and the
\* reset of y when it does not fit
CheckRoomNoBreak(need, inBlock, next) ==
    /\ cmd' = NoCmd
    /\ brk' = FALSE
    /\ rpc' = next
    /\ UNCHANGED <<restVars, draw_w, draw_h, y, y_in, blk, todo, blockCmds,
                   pageDraws, blockBreaks>>

CheckRoom(need, inBlock, next) ==
    /\ IF NeedsBreak(y, need)
       THEN /\ cmd' = [op |-> "showPage", y |-> 0]
            /\ y' = TopOfPage
            /\ brk' = TRUE
            /\ pageDraws' = FALSE
            /\ blockBreaks' = IF inBlock THEN blockBreaks + 1 ELSE blockBreaks
       ELSE /\ cmd' = NoCmd
            /\ brk' = FALSE
            /\ UNCHANGED <<y, pageDraws, blockBreaks>>
    /\ rpc' = next
    /\ UNCHANGED <<restVars, draw_w, draw_h, y_in, blk, todo, blockCmds>>

\* c.drawString(x, y - need, line) and y -= adv
DrawLine(need, adv, inBlock, next) ==
    /\ cmd' = [op |-> "drawString", y |-> y - need]
    /\ y' = Advance(y, adv)
    /\ todo' = Tail(todo)
    /\ brk' = FALSE
    /\ pageDraws' = TRUE
    /\ blockCmds' = IF inBlock THEN blockCmds + 1 ELSE blockCmds
    /\ rpc' = next
    /\ UNCHANGED <<restVars, draw_w, draw_h, y_in, blk, blockBreaks>>

\* a step that issues no command and moves y down by gap
Gap(gap, next) ==
    /\ y' = Advance(y, gap)
    /\ cmd' = NoCmd
    /\ rpc' = next
    /\ UNCHANGED <<restVars, draw_w, draw_h, y_in, blk, todo, brk,
                   blockCmds, blockBreaks, pageDraws>>

(* Title page *)

BeginTitle ==
    /\ rpc = "title"
    /\ \E title \in RenderTexts :
         todo' = wrap_cjk_aware(title, x_right - x_left, TITLE_FONT_SIZE)
    /\ rpc' = "title_line"
    /\ UNCHANGED <<restVars, draw_w, draw_h, y, y_in, blk, brk, cmd,
                   blockCmds, blockBreaks, pageDraws>>

NoTitle ==
    /\ rpc = "title"
    /\ rpc' = "spine"
    /\ UNCHANGED <<restVars, draw_w, draw_h, y, y_in, blk, todo, brk,
                   cmd, blockCmds, blockBreaks, pageDraws>>

TitleCheck ==
    /\ rpc = "title_line" /\ todo # <<>>
    /\ CheckRoom(Pt(30), FALSE, "title_draw")

TitleDraw ==
    /\ rpc = "title_draw"
    /\ DrawLine(Pt(30), Pt(38), FALSE, "title_line")

TitleGap ==
    /\ rpc = "title_line" /\ todo = <<>>
    /\ Gap(Pt(12), "spine")

(* One spine item *)

\* a spine item that is missing or is no document: continue
SkipItem ==
    /\ rpc = "spine"
    /\ blk' = NoBlock
    /\ cmd' = NoCmd
    /\ UNCHANGED <<restVars, draw_w, draw_h, rpc, y, y_in, todo, brk,
                   blockCmds, blockBreaks, pageDraws>>

\* a document: its chapter title is the first of h1, h2, title with text
BeginSection ==
    /\ rpc = "spine"
    /\ \E chapter_title \in RenderTexts \cup {<<>>} :
         IF chapter_title # <<>>
         THEN /\ todo' = wrap_cjk_aware(chapter_title, x_right - x_left, H1_SIZE)
              /\ rpc' = "head_line"
         ELSE /\ todo' = <<>>
              /\ rpc' = "blocks"
    /\ blk' = NoBlock
    /\ cmd' = NoCmd
    /\ UNCHANGED <<restVars, draw_w, draw_h, y, y_in, brk,
                   blockCmds, blockBreaks, pageDraws>>

HeadCheck ==
    /\ rpc = "head_line" /\ todo # <<>>
    /\ CheckRoom(Pt(H1_SIZE + 6), FALSE, "head_draw")

HeadDraw ==
    /\ rpc = "head_draw"
    /\ DrawLine(Pt(H1_SIZE + 6), Pt(H1_SIZE + 10), FALSE, "head_line")

HeadGap ==
    /\ rpc = "head_line" /\ todo = <<>>
    /\ Gap(Pt(4), "blocks")

\* c.save()
Finish ==
    /\ rpc = "spine"
    /\ rpc' = "done"
    /\ cmd' = NoCmd
    /\ UNCHANGED <<restVars, draw_w, draw_h, y, y_in, blk, todo, brk,
                   blockCmds, blockBreaks, pageDraws>>

(* Content flow: the blocks of the section *)

\* p, pre, blockquote: the call of draw_paragraph, up to the wrapping
BeginParagraph ==
    /\ rpc = "blocks"
    /\ \E name \in TextNames, t \in RenderTexts \cup {<<>>} :
         /\ blk' = [name |-> name, empty |-> (t = <<>>), res |-> "ok"]
         /\ LET indent == IF name = "blockquote" THEN QUOTE_INDENT ELSE 0 IN
              todo' = wrap_cjk_aware(t, x_right - (x_left + indent), DEFAULT_FONT_SIZE)
    /\ y_in' = 0
    /\ blockCmds' = 0 /\ blockBreaks' = 0
    /\ cmd' = NoCmd
    /\ rpc' = "para_line"
    /\ UNCHANGED <<restVars, draw_w, draw_h, y, brk, pageDraws>>

ParaCheck ==
    /\ rpc = "para_line" /\ todo # <<>>
    /\ CheckRoom(Leading(DEFAULT_FONT_SIZE), TRUE, "para_draw")

ParaDraw ==
    /\ rpc = "para_draw"
    /\ DrawLine(Leading(DEFAULT_FONT_SIZE), Leading(DEFAULT_FONT_SIZE), TRUE, "para_line")

\* return y
ParaReturn ==
    /\ rpc = "para_line" /\ todo = <<>>
    /\ rpc' = "blocks"
    /\ cmd' = NoCmd
    /\ UNCHANGED <<restVars, draw_w, draw_h, y, y_in, blk, todo, brk,
                   blockCmds, blockBreaks, pageDraws>>

\* h1, h2, h3: collected by find_all, matched by no branch of the loop
HeadingBlock ==
    /\ rpc = "blocks"
    /\ \E name \in HeadingNames, t \in RenderTexts \cup {<<>>} :
         blk' = [name |-> name, empty |-> (t = <<>>), res |-> "ok"]
    /\ y_in' = 0
    /\ blockCmds' = 0 /\ blockBreaks' = 0
    /\ cmd' = NoCmd
    /\ UNCHANGED <<restVars, draw_w, draw_h, rpc, y, todo, brk, pageDraws>>

\* img without src, with a reference that is not found or is no image item,
\* or with data PIL cannot decode
ImageSkipped ==
    /\ rpc = "blocks"
    /\ \E res \in {"no_src", "not_found", "not_image", "bad_data"} :
         blk' = [name |-> "img", empty |-> TRUE, res |-> res]
    /\ y_in' = y
    /\ blockCmds' = 0 /\ blockBreaks' = 0
    /\ cmd' = NoCmd
    /\ UNCHANGED <<restVars, draw_w, draw_h, rpc, y, todo, brk, pageDraws>>

\* img: the call of draw_image, up to the scaled size
BeginImage ==
    /\ rpc = "blocks"
    /\ \E im \in RenderImages :
         /\ blk' = [name |-> "img", empty |-> TRUE, res |-> "ok"]
         /\ LET d == DrawSize(im[1], im[2], x_right - x_left, PAGE_H) IN
              /\ draw_w' = d.w
              /\ draw_h' = d.h
    /\ y_in' = y
    /\ blockCmds' = 0 /\ blockBreaks' = 0
    /\ cmd' = NoCmd
    /\ rpc' = "img_check"
    /\ UNCHANGED <<restVars, y, todo, brk, pageDraws>>

ImgCheck ==
    /\ rpc = "img_check"
    /\ CheckRoom(draw_h, TRUE, "img_draw")

\* c.drawImage(..., x, y - draw_h, ...), y -= draw_h, return y
ImgDraw ==
    /\ rpc = "img_draw"
    /\ cmd' = [op |-> "drawImage", y |-> y - draw_h]
    /\ y' = Advance(y, draw_h)
    /\ brk' = FALSE
    /\ pageDraws' = TRUE
    /\ blockCmds' = blockCmds + 1
    /\ draw_w' = 0 /\ draw_h' = 0
    /\ rpc' = "blocks"
    /\ UNCHANGED <<restVars, y_in, blk, todo, blockBreaks>>

\* pil_img.save, ImageReader or c.drawImage raises: the caller's except
\* clause passes and its y is not assigned
ImgDrawRaises ==
    /\ rpc = "img_draw"
    /\ blk' = [blk EXCEPT !.res = "raised"]
    /\ y' = y_in
    /\ cmd' = NoCmd
    /\ brk' = FALSE
    /\ draw_w' = 0 /\ draw_h' = 0
    /\ rpc' = "blocks"
    /\ UNCHANGED <<restVars, y_in, todo, blockCmds, blockBreaks, pageDraws>>

\* the gap between chapters, and the forced break when little room is left
EndSection ==
    /\ rpc = "blocks"
    /\ IF Advance(y, Pt(4)) < MARGIN + Pt(20)
       THEN /\ cmd' = [op |-> "showPage", y |-> 0]
            /\ y' = TopOfPage
            /\ pageDraws' = FALSE
       ELSE /\ cmd' = NoCmd
            /\ y' = Advance(y, Pt(4))
            /\ UNCHANGED pageDraws
    /\ blk' = NoBlock
    /\ y_in' = 0
    /\ blockCmds' = 0 /\ blockBreaks' = 0
    /\ rpc' = "spine"
    /\ UNCHANGED <<restVars, draw_w, draw_h, todo, brk>>

Next ==
    \/ BeginTitle \/ NoTitle \/ TitleCheck \/ TitleDraw \/ TitleGap
    \/ SkipItem \/ BeginSection \/ HeadCheck \/ HeadDraw \/ HeadGap
    \/ BeginParagraph \/ ParaCheck \/ ParaDraw \/ ParaReturn
    \/ HeadingBlock \/ ImageSkipped
    \/ BeginImage \/ ImgCheck \/ ImgDraw \/ ImgDrawRaises
    \/ EndSection \/ Finish

Spec == Init /\ [][Next]_vars

----------------------------------------------------------------------------
(* Claims about the page-flow cursor *)

Emitted == cmd.op \in {"drawString", "drawImage"}

\* C2: immediately after any emission (a title line, a chapter-heading line, a
\* body line or an image) the vertical offset lies within
\* [MARGIN, page height - MARGIN].
C2_CursorRange ==
    Emitted => (MARGIN <= y /\ y <= PAGE_H - MARGIN)

CollectedNames == {"h1", "h2", "h3", "p", "blockquote", "pre", "img"}

BlockDone == rpc = "blocks" /\ blk.name \in CollectedNames

\* C3: every collected block (h1, h2, h3, p, blockquote, pre, img) has produced
\* at least one drawing command when the loop moves on, unless its text is empty
\* or it is an image that could not be rendered.
C3_NoLostContent ==
    (/\ BlockDone
     /\ ~(blk.name # "img" /\ blk.empty)
     /\ ~(blk.name = "img" /\ blk.res # "ok"))
        => blockCmds >= 1

\* C4: the vertical offset never increases from one step to the next, except in
\* a step that emits a page break, which resets it to page height - MARGIN.
C4_MonotonicCursor ==
    [][y' > y => (cmd'.op = "showPage" /\ y' = PAGE_H - MARGIN)]_vars

\* an image did not fit below the text of the page: the page break has reset
\* the offset, and the image is about to be drawn
C4_Witness ==
    /\ rpc = "img_draw" /\ brk
    /\ cmd.op = "showPage"
    /\ y = PAGE_H - MARGIN /\ y_in < y

BodyLeading == DEFAULT_FONT_SIZE * LINE_SPACING

\* C5: while the lines of a paragraph are emitted, the test before a line emits
\* a page break exactly when offset - leading < MARGIN, and only one; the line
\* is then drawn at y = (page height - MARGIN) - leading, on the new page.
C5_BreakOnOverflow ==
    [][/\ (rpc = "para_line" /\ rpc' = "para_draw") =>
            /\ (cmd'.op = "showPage") <=> (y - BodyLeading < MARGIN)
            /\ cmd'.op = "showPage" =>
                  (blockBreaks' = blockBreaks + 1 /\ y' = PAGE_H - MARGIN)
            /\ cmd'.op # "showPage" =>
                  (cmd' = NoCmd /\ blockBreaks' = blockBreaks /\ y' = y)
       /\ rpc = "para_draw" =>
            /\ cmd' = [op |-> "drawString", y |-> y - BodyLeading]
            /\ blockBreaks' = blockBreaks
            /\ brk => cmd'.y = (PAGE_H - MARGIN) - BodyLeading
      ]_vars

\* the second line of a paragraph did not fit: one page break was emitted for
\* the paragraph and that line has been drawn at the top of the new page
C5_Witness ==
    /\ rpc = "para_line"
    /\ blockCmds = 2 /\ blockBreaks = 1
    /\ cmd = [op |-> "drawString", y |-> (PAGE_H - MARGIN) - BodyLeading]
    /\ y = (PAGE_H - MARGIN) - BodyLeading

\* C9: an image block that cannot be rendered (no src, reference not found, not
\* an image item, an exception while decoding or drawing) emits no drawing
\* command and no page break and leaves the vertical offset unchanged, and the
\* loop goes on to the next block.
C9_SkippedImage ==
    (rpc \in {"blocks", "img_check", "img_draw"} /\ blk.name = "img" /\ blk.res # "ok")
        => (rpc = "blocks" /\ blockCmds = 0 /\ blockBreaks = 0 /\ y = y_in)

\* C15: every drawString and drawImage command is issued with a y-coordinate
\* within [MARGIN, page height - MARGIN], on every emission path (document
\* title, chapter heading, body paragraph, image).
C15_DrawnOnPage ==
    Emitted => (MARGIN <= cmd.y /\ cmd.y <= PAGE_H - MARGIN)

\* a line has been drawn less than 4 points above the bottom margin and has
\* taken the cursor below it
C15_Witness ==
    cmd.op = "drawString" /\ cmd.y < MARGIN + Pt(4) /\ y < MARGIN

\* C16: showPage is only issued when a draw command has been issued on the
\* current page: no two page breaks without a draw command between them.
C16_NoBlankPages ==
    [][cmd'.op = "showPage" => pageDraws]_vars

====
